---- MODULE Spec2Model ----
(***************************************************************************)
(* A model of blockchain.js: the Block class (constructor, calculateHash,  *)
(* mineBlock) and the Blockchain class (constructor, createGenesis,        *)
(* latestBlock, addBlock, checkValid).                                     *)
(*                                                                         *)
(* JavaScript strings are sequences of one-character strings.  Block       *)
(* objects live in a heap (a sequence of records); the chain holds object  *)
(* references (heap indices), so that one object stored at two positions   *)
(* of the chain is one record of the heap, as in JavaScript.               *)
(***************************************************************************)
EXTENDS Integers, Sequences, FiniteSets, TLC

\* ------------------------------------------------------------------ bounds
MaxChain == 3         \* length of the chain, and number of Block objects
MaxNonce == 40        \* largest nonce: stands for 2^53, where a Number stops growing
MaxTamper == 1        \* assignments of the caller to fields of stored Blocks
MaxMine == 1          \* calls of mineBlock by the caller itself
PrefixLen == 4        \* pseudo-random leading digits of a digest
MaxCalls == 2         \* calls of calculateHash by the caller itself

\* this.difficulty = 4
DefaultDifficulty == 4

\* The difficulties given by configuration or by the caller: two negative
\* ones, zero, a small one and the constructor's.
Difficulties == {-2, -1, 0, 1, DefaultDifficulty}

\* ----------------------------------------------------------------- strings
Hex == <<"0","1","2","3","4","5","6","7","8","9","a","b","c","d","e","f">>

\* The characters of the model's strings that are no hexadecimal digits.
Others == <<"\"", "/", " ", "G", "n", "s", "i", "l", "o", "k", "u", "t", "A", "B", "\\">>

\* The place of character c in sequence q, 0 when it is not there.
Place(c, q) ==
  IF \E i \in 1..Len(q) : q[i] = c THEN CHOOSE i \in 1..Len(q) : q[i] = c ELSE 0

Chars == {Hex[i] : i \in 1..Len(Hex)} \cup {Others[i] : i \in 1..Len(Others)}

\* The character code of c: 0 to 15 for a hexadecimal digit, 16 on for the
\* others.
CodeOf == [c \in Chars |->
             IF Place(c, Hex) > 0 THEN Place(c, Hex) - 1 ELSE 15 + Place(c, Others)]

\* Number.prototype.toString for a non-negative integer: its decimal digits.
RECURSIVE Dec(_)
Dec(n) == IF n < 10 THEN <<Hex[n + 1]>> ELSE Dec(n \div 10) \o <<Hex[(n % 10) + 1]>>

undefinedStr == <<"u","n","d","e","f","i","n","e","d">>

\* JSON.stringify of a string payload: the payload between double quotes,
\* with a backslash before each double quote and each backslash of it.
RECURSIVE Escape(_)
Escape(s) ==
  IF \A i \in 1..Len(s) : s[i] \notin {"\"", "\\"} THEN s
  ELSE (IF Head(s) \in {"\"", "\\"} THEN <<"\\", Head(s)>> ELSE <<Head(s)>>)
         \o Escape(Tail(s))

JSONstringify(data) == <<"\"">> \o Escape(data) \o <<"\"">>

\* String.prototype.substring(0, n): n below 0 counts as 0, n above the
\* length as the length.
substring0(s, n) ==
  LET e == IF n < 0 THEN 0 ELSE IF n > Len(s) THEN Len(s) ELSE n
  IN  SubSeq(s, 1, e)

\* Array(n).join("0") for n >= 0: n empty slots joined by "0", that is
\* n - 1 zeros (none for n = 0).  Array(n) throws a RangeError for n < 0.
ArrayJoin0(n) == IF n <= 1 THEN <<>> ELSE [i \in 1..(n - 1) |-> "0"]

\* ------------------------------------------------------------------ SHA256
\* crypto-js's SHA256(..).toString() is modelled as an ideal digest: a
\* deterministic, collision-free function from strings to strings.  A digest
\* is PrefixLen hexadecimal digits drawn from a checksum of the whole input
\* (each bit of the checksum gives one digit, "0" or not), then a digit that
\* is never "0", then the input, so that a digest determines its input.
Mix(s) ==
  LET n == Len(s)
  IN  (n + CodeOf[s[n]] + 3 * CodeOf[s[n - 1]]
         + 5 * Cardinality({i \in 1..n : (CodeOf[s[i]] + i) % 3 = 0})
         + 7 * Cardinality({i \in 1..n : (CodeOf[s[i]] + 2 * i) % 5 = 0}))
      % (2 ^ PrefixLen)

Bit(n, k) == (n \div (2 ^ (k - 1))) % 2

Prefix(s) ==
  LET m == Mix(s)
  IN  [k \in 1..PrefixLen |-> IF Bit(m, k) = 0 THEN "0" ELSE Hex[(k % 15) + 2]]

SHA256(s) == Prefix(s) \o <<Hex[(Len(s) % 15) + 2]>> \o s

\* ------------------------------------------------------------------- Block
\* calculateHash() without the payload in the hashed string.
calculateHashNoData(this) ==
  SHA256(Dec(this.index) \o this.previousHash \o this.timestamp
         \o (IF "nonce" \in DOMAIN this THEN Dec(this.nonce) ELSE undefinedStr))

\* calculateHash() with the stored hash in the hashed string.
calculateHashWithHash(this) ==
  SHA256(Dec(this.index) \o this.previousHash \o this.timestamp
         \o JSONstringify(this.data)
         \o (IF "nonce" \in DOMAIN this THEN Dec(this.nonce) ELSE undefinedStr)
         \o (IF "hash" \in DOMAIN this THEN this.hash ELSE undefinedStr))

\* calculateHash(): `this.nonce` reads as undefined while the constructor
\* has not yet assigned it.
calculateHash(this) ==
  SHA256(Dec(this.index) \o this.previousHash \o this.timestamp
         \o JSONstringify(this.data)
         \o (IF "nonce" \in DOMAIN this THEN Dec(this.nonce) ELSE undefinedStr))

\* new Block(index, timestamp, data, previousHash): the hash is computed
\* before the nonce is assigned.
Block(index, timestamp, data, previousHash) ==
  LET this == [index |-> index, timestamp |-> timestamp, data |-> data,
               previousHash |-> previousHash]
  IN  [index |-> index, timestamp |-> timestamp, data |-> data,
       previousHash |-> previousHash, hash |-> calculateHash(this), nonce |-> 0]

\* The loop's test off by one: one character fewer is compared.
MiningDoneShort(hash, d) == substring0(hash, d - 1) = ArrayJoin0(d)

\* The test of mineBlock's while loop, negated: the loop is left when the
\* first `d` characters of the hash are Array(d + 1).join("0").
MiningDone(hash, d) == substring0(hash, d) = ArrayJoin0(d + 1)

\* Array(difficulty + 1) throws a RangeError for a negative length.
MiningThrows(d) == d + 1 < 0

\* ---------------------------------------------------------------- Blockchain
GenesisTimestamp == <<"0","1","/","0","1","/","2","0","1","8">>
GenesisData == <<"G","e","n","e","s","i","s"," ","b","l","o","c","k">>

createGenesis == Block(0, GenesisTimestamp, GenesisData, <<"0">>)


\* latestBlock() returning the first block of the chain.
latestBlockFirst(ch) == ch[1]

\* this.chain[this.chain.length - 1]
latestBlock(ch) == ch[Len(ch)]

\* checkValid(): the loop from i = 1 (here position i + 1 = 2), which returns
\* false at the first block whose hash is not its recomputed hash or whose
\* previousHash is not the hash of the block before it.
RECURSIVE checkValidFrom(_, _, _)
checkValidFrom(i, ch, hp) ==
  IF ~(i <= Len(ch)) THEN TRUE
  ELSE LET currentBlock == hp[ch[i]]
           previousBlock == hp[ch[i - 1]]
       IN  IF currentBlock.hash /= calculateHash(currentBlock) THEN FALSE
           ELSE IF currentBlock.previousHash /= previousBlock.hash THEN FALSE
           ELSE checkValidFrom(i + 1, ch, hp)

\* checkValid() with its loop starting one block late.
checkValidLate(ch, hp) == checkValidFrom(3, ch, hp)

\* checkValid() without the comparison of previousHash.
RECURSIVE checkHashesFrom(_, _, _)
checkHashesFrom(i, ch, hp) ==
  IF ~(i <= Len(ch)) THEN TRUE
  ELSE IF hp[ch[i]].hash /= calculateHash(hp[ch[i]]) THEN FALSE
  ELSE checkHashesFrom(i + 1, ch, hp)

checkValidNoLink(ch, hp) == checkHashesFrom(2, ch, hp)

checkValid(ch, hp) == checkValidFrom(2, ch, hp)

\* ------------------------------------------------------------------- state
VARIABLES
  heap,        \* the Block objects: heap[1] is the genesis block
  chain,       \* Blockchain.chain: references to Block objects
  difficulty,  \* Blockchain.difficulty
  pc,          \* "idle", or "mining" inside mineBlock's loop
  call,        \* the call in progress or last made to addBlock / mineBlock
  op,          \* the operation that completed last
  ret,         \* its outcome
  fresh,       \* the objects no statement has assigned to since `new Block`
  hist,        \* what the caller has done so far
  last,        \* the last assignment to a field by the caller
  brk,         \* the object whose previousHash the caller overwrote last
  out          \* what the caller's own calls of calculateHash() returned

vars == <<heap, chain, difficulty, pc, call, op, ret, fresh, hist, last, brk, out>>

\* The values of the caller: arguments of new Block, and values assigned to
\* fields.
Indexes == {0, 1}
NewIndexes == {1}
Timestamps == {<<"t","1">>, <<"t","2">>}
NewTimestamps == {<<"t","1">>}
Payloads == {<<"A">>, <<"B">>}
NewPayloads == {<<"A">>}
Fields == {"index", "timestamp", "data", "previousHash", "hash", "nonce"}

Objects == 1..Len(heap)
Stored == {chain[i] : i \in 1..Len(chain)}

NoCall == [fn |-> "none", self |-> 0, d |-> 0, latestHash |-> <<>>,
           heap0 |-> <<>>, chain0 |-> <<>>]
NoLast == [obj |-> 0, field |-> "none", clean |-> FALSE]

\* new Blockchain()
Init ==
  /\ heap = <<createGenesis>>
  /\ chain = <<1>>
  /\ difficulty = DefaultDifficulty
  /\ pc = "idle"
  /\ call = NoCall
  /\ op = "new Blockchain"
  /\ ret = "ok"
  /\ fresh = {}
  /\ hist = [stale |-> FALSE, reused |-> FALSE, touched |-> FALSE,
             tampers |-> 0, mines |-> 0]
  /\ last = NoLast
  /\ brk = 0
  /\ out = <<>>

\* The ledger's difficulty is set from configuration, once, right after
\* construction (testChain.difficulty = d).
Configure(d) ==
  /\ pc = "idle"
  /\ op = "new Blockchain"
  /\ Len(chain) = 1
  /\ d /= difficulty
  /\ difficulty' = d
  /\ op' = "configure"
  /\ ret' = "ok"
  /\ call' = NoCall
  /\ last' = NoLast
  /\ brk' = 0
  /\ UNCHANGED <<heap, chain, pc, fresh, hist, out>>

\* new Block(index, timestamp, data), previousHash defaulting to ''.  A
\* caller builds a block when it has used the ones it built before (building
\* one earlier changes nothing the other operations read).
NewBlock(index, timestamp, data) ==
  /\ pc = "idle"
  /\ fresh = {}
  /\ ~hist.touched
  /\ Len(heap) < MaxChain
  /\ heap' = Append(heap, Block(index, timestamp, data, <<>>))
  /\ fresh' = fresh \cup {Len(heap) + 1}
  /\ op' = "new Block"
  /\ ret' = "ok"
  /\ call' = NoCall
  /\ last' = NoLast
  /\ brk' = 0
  /\ UNCHANGED <<chain, difficulty, pc, hist, out>>

\* addBlock(newBlock) with the push before the call of mineBlock.
AddBlockCallPushFirst(b) ==
  /\ pc = "idle"
  /\ ~hist.touched
  /\ Len(chain) < MaxChain
  /\ heap' = [heap EXCEPT ![b].previousHash = heap[latestBlock(chain)].hash]
  /\ chain' = Append(chain, b)
  /\ pc' = "mining"
  /\ call' = [fn |-> "addBlock", self |-> b, d |-> difficulty,
              latestHash |-> heap[latestBlock(chain)].hash,
              heap0 |-> heap, chain0 |-> chain]
  /\ op' = "none"
  /\ ret' = "none"
  /\ fresh' = fresh \ {b}
  /\ hist' = [hist EXCEPT !.stale = @ \/ b \notin fresh,
                          !.reused = @ \/ b \in Stored]
  /\ last' = NoLast
  /\ brk' = 0
  /\ UNCHANGED <<difficulty, out>>

\* addBlock(newBlock), for any Block object the caller can reach (one it
\* built, appended or not, or one of this.chain), up to the first test of
\* mineBlock's loop:
\* newBlock.previousHash = this.latestBlock().hash, then
\* newBlock.mineBlock(this.difficulty) is entered.
AddBlockCall(b) ==
  /\ pc = "idle"
  /\ ~hist.touched
  /\ Len(chain) < MaxChain
  /\ heap' = [heap EXCEPT ![b].previousHash = heap[latestBlock(chain)].hash]
  /\ pc' = "mining"
  /\ call' = [fn |-> "addBlock", self |-> b, d |-> difficulty,
              latestHash |-> heap[latestBlock(chain)].hash,
              heap0 |-> heap, chain0 |-> chain]
  /\ op' = "none"
  /\ ret' = "none"
  /\ fresh' = fresh \ {b}
  /\ hist' = [hist EXCEPT !.stale = @ \/ b \notin fresh,
                          !.reused = @ \/ b \in Stored]
  /\ last' = NoLast
  /\ brk' = 0
  /\ UNCHANGED <<chain, difficulty, out>>

\* block.mineBlock(d) called by the caller itself, on a block it has not
\* appended or on the stored block whose previousHash it has just overwritten.
MineBlockCall(b, d) ==
  /\ pc = "idle"
  /\ b \notin Stored \/ b = brk
  /\ hist.mines < MaxMine
  /\ pc' = "mining"
  /\ call' = [fn |-> "mineBlock", self |-> b, d |-> d,
              latestHash |-> heap[latestBlock(chain)].hash,
              heap0 |-> heap, chain0 |-> chain]
  /\ op' = "none"
  /\ ret' = "none"
  /\ fresh' = fresh \ {b}
  /\ hist' = [hist EXCEPT !.touched = @ \/ b \in Stored, !.mines = @ + 1]
  /\ last' = NoLast
  /\ brk' = IF b = brk THEN brk ELSE 0
  /\ UNCHANGED <<heap, chain, difficulty, out>>

\* n++ for a Number n: beyond the largest nonce the sum n + 1 rounds to n
\* again.
Increment(n) == IF n < MaxNonce THEN n + 1 ELSE n

\* One iteration of mineBlock's loop: this.nonce++; this.hash = this.calculateHash().
MineLoop ==
  /\ pc = "mining"
  /\ ~MiningThrows(call.d)
  /\ ~MiningDone(heap[call.self].hash, call.d)
  /\ LET this == [heap[call.self] EXCEPT !.nonce = Increment(@)]
     IN  heap' = [heap EXCEPT ![call.self] = [this EXCEPT !.hash = calculateHash(this)]]
  /\ UNCHANGED <<chain, difficulty, pc, call, op, ret, fresh, hist, last, brk, out>>

\* The loop's test fails: mineBlock returns, and addBlock pushes the block.
MineReturn ==
  /\ pc = "mining"
  /\ ~MiningThrows(call.d)
  /\ MiningDone(heap[call.self].hash, call.d)
  /\ chain' = IF call.fn = "addBlock" THEN Append(chain, call.self) ELSE chain
  /\ pc' = "idle"
  /\ op' = call.fn
  /\ ret' = "ok"
  /\ UNCHANGED <<heap, difficulty, call, fresh, hist, last, brk, out>>

\* The loop's first test throws (Array(difficulty + 1) with a negative
\* length): mineBlock and addBlock end with the RangeError, nothing is pushed.
MineThrow ==
  /\ pc = "mining"
  /\ MiningThrows(call.d)
  /\ pc' = "idle"
  /\ op' = call.fn
  /\ ret' = "RangeError"
  /\ UNCHANGED <<heap, chain, difficulty, call, fresh, hist, last, brk, out>>

\* checkValid() that stores the hash it recomputes for the latest block.
CheckValidRepair ==
  /\ pc = "idle"
  /\ op' = "checkValid"
  /\ ret' = IF checkValid(chain, heap) THEN "true" ELSE "false"
  /\ heap' = [heap EXCEPT ![latestBlock(chain)].hash = calculateHash(heap[latestBlock(chain)])]
  /\ call' = NoCall
  /\ last' = NoLast
  /\ UNCHANGED <<chain, difficulty, pc, fresh, hist, brk, out>>

\* checkValid()
CheckValid ==
  /\ pc = "idle"
  /\ op' = "checkValid"
  /\ ret' = IF checkValid(chain, heap) THEN "true" ELSE "false"
  /\ call' = NoCall
  /\ last' = NoLast
  /\ UNCHANGED <<heap, chain, difficulty, pc, fresh, hist, brk, out>>

\* The values the caller assigns to a field of block b.
TamperValues(b, f) ==
  CASE f = "index" -> Indexes
    [] f = "timestamp" -> Timestamps
    [] f = "data" -> Payloads
    [] f = "nonce" -> {0, heap[b].nonce + 1}
    [] f = "previousHash" -> {<<"0">>} \cup {heap[x].hash : x \in Stored}
    [] f = "hash" -> {calculateHash(heap[b]), <<"0">>}

\* The caller assigns v to field f of a block b of the chain (the fields of
\* a Block are public): a change of the field, never a re-assignment of its
\* value.
Tamper(b, f, v) ==
  /\ pc = "idle"
  /\ b \in Stored
  /\ hist.tampers < MaxTamper
  /\ heap[b][f] /= v
  /\ heap' = [heap EXCEPT ![b][f] = v]
  /\ fresh' = fresh \ {b}
  /\ hist' = [hist EXCEPT !.touched = @ \/ b \in Stored, !.tampers = @ + 1]
  /\ last' = [obj |-> b, field |-> f, clean |-> ~hist.touched]
  /\ brk' = IF f = "previousHash" /\ ~hist.touched
               /\ \E i \in 2..Len(chain) : chain[i] = b /\ v /= heap[chain[i - 1]].hash
            THEN b
            ELSE IF f = "hash" /\ b = brk /\ v = calculateHash(heap[b]) THEN brk
            ELSE 0
  /\ op' = "tamper"
  /\ ret' = "ok"
  /\ call' = NoCall
  /\ UNCHANGED <<chain, difficulty, pc, out>>

\* The statements of mineBlock, and checkValid().
Step == MineLoop \/ MineReturn \/ MineThrow \/ CheckValid

\* A caller that builds blocks, mines them itself or not, and appends any
\* block it can reach, one of the chain included.
Next ==
  \/ \E d \in Difficulties : Configure(d)
  \/ \E index \in NewIndexes, timestamp \in NewTimestamps, data \in Payloads :
       NewBlock(index, timestamp, data)
  \/ \E b \in Objects : AddBlockCall(b)
  \/ \E b \in Objects \ Stored, d \in Difficulties : MineBlockCall(b, d)
  \/ Step

Spec == Init /\ [][Next]_vars

\* A caller that appends new blocks of one payload, then assigns to fields of
\* stored blocks (the payload among them), and mines again the block whose
\* previousHash it has overwritten.
NextTamper ==
  \/ \E d \in Difficulties : Configure(d)
  \/ \E index \in NewIndexes, timestamp \in NewTimestamps, data \in NewPayloads :
       NewBlock(index, timestamp, data)
  \/ \E b \in fresh : AddBlockCall(b)
  \/ \E b \in Objects, f \in Fields : \E v \in TamperValues(b, f) : Tamper(b, f, v)
  \/ \E b \in Objects \cap {brk}, d \in Difficulties : MineBlockCall(b, d)
  \/ Step

SpecTamper == Init /\ [][NextTamper]_vars

\* The characters of a SHA-256 digest in hexadecimal, and a difficulty above it.
HashLength == 64
LongDifficulty == HashLength + 1

\* The positive difficulties of the caller whose appends are followed to their
\* end.
LiveDifficulties == {1, DefaultDifficulty, LongDifficulty}

\* A caller that configures a positive difficulty and appends blocks it has
\* just built.
NextLive ==
  \/ \E d \in LiveDifficulties : Configure(d)
  \/ \E index \in NewIndexes, timestamp \in NewTimestamps, data \in Payloads :
       NewBlock(index, timestamp, data)
  \/ \E b \in fresh : AddBlockCall(b)
  \/ MineLoop
  \/ MineReturn

\* addBlock and mineBlock are synchronous code: once the loop is entered, the
\* statement that can run next does run.
SpecLive ==
  Init /\ [][NextLive]_vars /\ WF_vars(MineLoop) /\ WF_vars(MineReturn)

\* ----------------------------------------------------------- calculateHash
\* The field values of the Blocks on which the caller calls calculateHash()
\* itself: indexes of one and two digits, the hash of the genesis block as
\* previous hash, with and without a digit before it, timestamps and payloads
\* with and without the characters JSON.stringify escapes.
HashIndexes == {1, 11}
HashPrevious == {createGenesis.hash, <<"1">> \o createGenesis.hash}
HashTimestamps == {<<"t">>, <<"t", "\"", "A", "\\">>}
HashPayloads == {<<"B">>, <<"A", "\"", "B">>}
HashNonces == {0, 1}

\* A Block with these fields: one whose stored hash is the hash of its fields
\* (sealed), or one whose stored hash is another string.
HashBlock(index, previousHash, timestamp, data, nonce, sealed) ==
  LET this == [index |-> index, timestamp |-> timestamp, data |-> data,
               previousHash |-> previousHash, hash |-> <<"0">>, nonce |-> nonce]
  IN  IF sealed THEN [this EXCEPT !.hash = calculateHash(this)] ELSE this

HashBlocks ==
  {HashBlock(i, p, t, d, n, z) :
     i \in HashIndexes, p \in HashPrevious, t \in HashTimestamps,
     d \in HashPayloads, n \in HashNonces, z \in BOOLEAN}

\* A new Blockchain, and two Blocks the caller has built and assigned the
\* fields of.
InitHash ==
  /\ \E x \in HashBlocks, y \in HashBlocks : heap = <<createGenesis, x, y>>
  /\ chain = <<1>>
  /\ difficulty = DefaultDifficulty
  /\ pc = "idle"
  /\ call = NoCall
  /\ op = "assign"
  /\ ret = "ok"
  /\ fresh = {}
  /\ hist = [stale |-> FALSE, reused |-> FALSE, touched |-> FALSE,
             tampers |-> 0, mines |-> 0]
  /\ last = NoLast
  /\ brk = 0
  /\ out = <<>>

\* block.calculateHash() called by the caller: the string is built from the
\* fields and hashed, nothing is assigned.
CalculateHashCall(b) ==
  /\ pc = "idle"
  /\ Len(out) < MaxCalls
  /\ out' = Append(out, [self |-> b, this |-> heap[b], result |-> calculateHash(heap[b])])
  /\ call' = [fn |-> "calculateHash", self |-> b, d |-> 0, latestHash |-> <<>>,
              heap0 |-> heap, chain0 |-> chain]
  /\ op' = "calculateHash"
  /\ ret' = "ok"
  /\ last' = NoLast
  /\ UNCHANGED <<heap, chain, difficulty, pc, fresh, hist, brk>>

\* A caller that calls calculateHash() on the blocks it holds.
NextHash == \E b \in Objects : CalculateHashCall(b)

SpecHash == InitHash /\ [][NextHash]_vars

\* ------------------------------------------------------------------ claims
\* Every block after the first links to the block before it.
Links(ch, hp) ==
  \A i \in 2..Len(ch) : hp[ch[i]].previousHash = hp[ch[i - 1]].hash

\* Every block after the first stores the hash of its current fields.
Sealed(ch, hp) ==
  \A i \in 2..Len(ch) : hp[ch[i]].hash = calculateHash(hp[ch[i]])

\* The first d characters of h exist and are all "0".
LeadingZeros(h, d) == d <= Len(h) /\ \A k \in 1..d : h[k] = "0"

\* The positions after the genesis position that hold object b.
PositionsOf(b) == {i \in 2..Len(chain) : chain[i] = b}

\* addBlock or mineBlock has just returned.
Mined == op \in {"addBlock", "mineBlock"} /\ ret = "ok"

\* So far the caller has only appended blocks it had just built.
OnlyFreshAppends == ~hist.stale /\ ~hist.reused /\ ~hist.touched

\* C1: from a fresh ledger with a positive difficulty, after any appends of
\* freshly constructed blocks checkValid returns true: every block after the
\* first stores the hash of its fields and links to the block before it.
C1_FreshAppendsValidate ==
  (pc = "idle" /\ OnlyFreshAppends /\ difficulty > 0)
    => (checkValid(chain, heap) /\ Sealed(chain, heap) /\ Links(chain, heap))

\* C2: after any appends of distinct blocks (no block appended twice, no
\* stored block changed by the caller), every block after the first has the
\* previousHash that is the stored hash of the block before it.
C2_LinkInvariant ==
  (~hist.reused /\ ~hist.touched) => Links(chain, heap)

C2_Witness ==
  /\ ~hist.reused /\ ~hist.touched
  /\ op = "addBlock" /\ ret = "ok"
  /\ Len(chain) = 3
  /\ heap[chain[3]].previousHash = heap[chain[2]].hash
  /\ heap[chain[2]].nonce > 0

\* C3: in every state, tampered ones included, checkValid returns true
\* exactly when every block after the first stores the hash of its current
\* fields and links to the block before it, and false (no exception)
\* otherwise; the genesis block is not checked, and a chain of one block is
\* valid.
C3_ValidateIff ==
  /\ checkValid(chain, heap) = (Sealed(chain, heap) /\ Links(chain, heap))
  /\ op = "checkValid" =>
       ret = (IF Sealed(chain, heap) /\ Links(chain, heap) THEN "true" ELSE "false")
  /\ Len(chain) = 1 => checkValid(chain, heap)

C3_Witness ==
  /\ op = "checkValid" /\ ret = "false"
  /\ Len(chain) = 3
  /\ Sealed(chain, heap)
  /\ heap[chain[2]].previousHash = heap[chain[1]].hash
  /\ heap[chain[3]].previousHash /= heap[chain[2]].hash

\* C4: in a ledger built by appends, changing one field other than the hash
\* of a block stored after the first position, the stored hash left as it
\* is, makes checkValid return false.
C4_TamperDetected ==
  (op = "tamper" /\ last.clean /\ last.field /= "hash" /\ PositionsOf(last.obj) /= {})
    => ~checkValid(chain, heap)

C4_Witness ==
  /\ op = "tamper" /\ last.clean /\ last.field = "data"
  /\ PositionsOf(last.obj) = {2}
  /\ Len(chain) = 3
  /\ Links(chain, heap)
  /\ heap[chain[3]].hash = calculateHash(heap[chain[3]])
  /\ ~checkValid(chain, heap)

\* C5: in a ledger built by appends, once the previousHash of a block stored
\* after the first position is overwritten with a value that is not the hash
\* of the block before it, checkValid returns false, also after the block's
\* hash and nonce are recomputed by mining it again.
C5_BreakLinkDetected == brk /= 0 => ~checkValid(chain, heap)

C5_Witness ==
  /\ brk /= 0
  /\ op = "mineBlock" /\ ret = "ok" /\ call.self = brk
  /\ heap[brk].nonce /= call.heap0[brk].nonce
  /\ Sealed(chain, heap)
  /\ ~checkValid(chain, heap)

\* C6: when addBlock returns, the block's previousHash is the hash of the
\* block that was latest before the call, and its hash is the hash of its
\* final fields, whatever it carried on entry (stated here for a positive
\* difficulty and a block that was not in the chain).
C6_AppendOverwrites ==
  (op = "addBlock" /\ ret = "ok" /\ call.d > 0
     /\ \A i \in 1..Len(call.chain0) : call.chain0[i] /= call.self)
    => /\ heap[call.self].previousHash = call.latestHash
       /\ heap[call.self].hash = calculateHash(heap[call.self])

\* C7: when mineBlock(d) returns, the first d characters of the block's hash
\* are all "0"; and while no stored block is changed by the caller, every
\* block stored after the first has a hash with at least `difficulty` leading
\* "0" characters.
C7_MiningPostcondition ==
  /\ Mined => LeadingZeros(heap[call.self].hash, call.d)
  /\ ~hist.touched =>
       \A i \in 2..Len(chain) : LeadingZeros(heap[chain[i]].hash, difficulty)

C7_Witness ==
  /\ op = "addBlock" /\ ret = "ok"
  /\ call.d = DefaultDifficulty
  /\ heap[call.self].nonce > 0
  /\ LeadingZeros(heap[chain[Len(chain)]].hash, DefaultDifficulty)

\* C8: when mineBlock returns, the stored hash is the hash of the block's
\* current fields with the stored nonce; with difficulty 0 a fresh block ends
\* with nonce 0 and the hash of its fields with nonce 0 (stated here for
\* difficulties from 0 on and a block that is not in the chain).
C8_WinningPair ==
  (Mined /\ call.d >= 0
     /\ \A i \in 1..Len(call.chain0) : call.chain0[i] /= call.self)
    => /\ heap[call.self].hash = calculateHash(heap[call.self])
       /\ call.d = 0 => heap[call.self].nonce = call.heap0[call.self].nonce

\* C9: the chain is never empty, and every addBlock call, whatever block it
\* is given, makes the chain one longer with the argument last and leaves
\* every earlier position with the same block and the same field values
\* (stated here for a positive difficulty and a block the caller built).
C9_AppendOnly ==
  /\ Len(chain) >= 1
  /\ (op = "addBlock" /\ ret = "ok" /\ call.d > 0 /\ call.self /= 1) =>
       /\ Len(chain) = Len(call.chain0) + 1
       /\ chain[Len(chain)] = call.self
       /\ \A i \in 1..Len(call.chain0) :
            chain[i] = call.chain0[i] /\ heap[chain[i]] = call.heap0[chain[i]]

\* C10: a fresh ledger holds the genesis block alone and is valid, and after
\* any appends (no field assigned by the caller, a positive difficulty) the
\* first block is still the genesis block with its fields unchanged.
C10_GenesisStability ==
  /\ op = "new Blockchain" =>
       /\ chain = <<1>>
       /\ heap[1].index = 0
       /\ heap[1].previousHash = <<"0">>
       /\ heap[1].nonce = 0
       /\ checkValid(chain, heap)
  /\ (pc = "idle" /\ ~hist.touched /\ difficulty > 0) =>
       /\ chain[1] = 1
       /\ heap[1] = createGenesis

\* C11: with a negative difficulty, addBlock and mineBlock end in an error:
\* the block is not pushed, the chain is as before the call, and the block's
\* hash and nonce are as before the call (stated here for a block that was
\* not in the chain).
C11_NegativeRejected ==
  (pc = "idle" /\ op \in {"addBlock", "mineBlock"} /\ call.d < 0
     /\ \A i \in 1..Len(call.chain0) : call.chain0[i] /= call.self)
    => /\ ret = "RangeError"
       /\ chain = call.chain0
       /\ heap[call.self].hash = call.heap0[call.self].hash
       /\ heap[call.self].nonce = call.heap0[call.self].nonce

\* C12: right after a Block is constructed, by the caller or as the genesis
\* block of a new Blockchain, its nonce is 0 and its hash is calculateHash()
\* of its fields, nonce 0 included.
C12_ConstructedSealed ==
  LET b == IF op = "new Blockchain" THEN 1 ELSE Len(heap)
  IN  op \in {"new Blockchain", "new Block"}
        => /\ heap[b].nonce = 0
           /\ heap[b].hash = calculateHash(heap[b])

\* C13: after any appends of blocks the caller has just built to a new
\* Blockchain (its difficulty as constructed), the index of every stored
\* block is its position in the chain, counted from 0.
C13_IndexIsPosition ==
  (pc = "idle" /\ OnlyFreshAppends /\ difficulty = DefaultDifficulty)
    => \A i \in 1..Len(chain) : heap[chain[i]].index = i - 1

\* The field values calculateHash() reads.
FieldsOf(b) == <<b.index, b.previousHash, b.timestamp, b.data, b.nonce>>

\* C14: a call of calculateHash() changes no field of any block, nor the
\* chain, and any two calls on blocks with the same index, previousHash,
\* timestamp, data and nonce return the same string, whatever hash the
\* blocks store.
C14_HashPure ==
  /\ op = "calculateHash" =>
       /\ heap = call.heap0
       /\ chain = call.chain0
       /\ out[Len(out)].this = heap[call.self]
  /\ \A i \in 1..Len(out), j \in 1..Len(out) :
       FieldsOf(out[i].this) = FieldsOf(out[j].this) => out[i].result = out[j].result

C14_Witness ==
  /\ op = "calculateHash"
  /\ Len(out) = 2
  /\ out[1].self /= out[2].self
  /\ FieldsOf(out[1].this) = FieldsOf(out[2].this)
  /\ out[1].this.hash /= out[2].this.hash
  /\ out[1].result = out[2].result
  /\ out[1].this.data = <<"A", "\"", "B">>

\* The block of the last call was, on entry, as `new Block` had built it.
WasFresh ==
  LET b == call.heap0[call.self]
  IN  b = Block(b.index, b.timestamp, b.data, <<>>)

\* The hash of block b with nonce n has d leading "0" characters.
GoodNonce(b, n, d) == LeadingZeros(calculateHash([b EXCEPT !.nonce = n]), d)

\* C15: when addBlock returns for a block just built (positive difficulty d),
\* the stored nonce is the smallest n from 0 on for which the hash of the
\* block's final fields with nonce n has d leading "0" characters; nonce 0 is
\* among the nonces tested.  Stated here for a caller that appends only blocks
\* it has just built, and for the calls whose loop ran at least once.
C15_SmallestNonce ==
  (op = "addBlock" /\ ret = "ok" /\ call.d > 0 /\ WasFresh /\ OnlyFreshAppends
     /\ heap[call.self].nonce > 0)
    => /\ GoodNonce(heap[call.self], heap[call.self].nonce, call.d)
       /\ \A n \in 0..(heap[call.self].nonce - 1) :
            ~GoodNonce(heap[call.self], n, call.d)

\* C16: with a positive difficulty, every addBlock call on a block just built
\* returns, with the block mined and pushed as the last block of the chain.
C16_MiningTerminates ==
  (pc = "mining" /\ call.fn = "addBlock" /\ call.d > 0)
    ~> (pc = "idle" /\ op = "addBlock" /\ ret = "ok" /\ chain[Len(chain)] = call.self)

\* The last call is addBlock(b) for a block b that was not in the chain.
AppendOfNew ==
  /\ call.fn = "addBlock"
  /\ \A i \in 1..Len(call.chain0) : call.chain0[i] /= call.self

\* C17: from the read of latestBlock().hash to the push, an addBlock call of
\* a block that is not in the chain is alone at work: while it mines, the
\* chain and the stored blocks are as at the call and the new block is not in
\* the chain; at the push the chain is the chain of the call with the new
\* block appended, and the new block's previousHash is the hash of the block
\* that was last.
C17_OneAppendInFlight ==
  /\ (AppendOfNew /\ pc = "mining") =>
       /\ chain = call.chain0
       /\ call.self \notin Stored
       /\ \A x \in Stored : heap[x] = call.heap0[x]
       /\ heap[call.self].previousHash = heap[latestBlock(chain)].hash
  /\ (AppendOfNew /\ pc = "idle" /\ op = "addBlock" /\ ret = "ok") =>
       /\ chain = Append(call.chain0, call.self)
       /\ heap[call.self].previousHash = heap[chain[Len(chain) - 1]].hash
       /\ heap[call.self].previousHash = call.latestHash

C17_Witness ==
  /\ AppendOfNew
  /\ pc = "mining"
  /\ Len(chain) = 2
  /\ heap[call.self].nonce > 1
  /\ call.self \notin Stored

\* C18: two blocks that differ in index, previousHash, timestamp, data or
\* nonce never give calculateHash() the same string to hash, so that a block
\* that checkValid accepts right after the genesis block is no longer
\* accepted there once some of these fields are changed with the stored hash
\* left as it is.  (Two calls of calculateHash give the two hashes; the
\* blocks are the block before and after the change.)
C18_InputIdentifiesFields ==
  \A i \in 1..Len(out), j \in 1..Len(out) :
    (/\ checkValid(<<1, out[i].self>>, heap)
     /\ heap[out[j].self].hash = heap[out[i].self].hash
     /\ FieldsOf(heap[out[i].self]) /= FieldsOf(heap[out[j].self]))
      => /\ out[i].result /= out[j].result
         /\ ~checkValid(<<1, out[j].self>>, heap)

\* C19: a call of checkValid() changes no field of any block, nor the chain,
\* nor the difficulty, nor anything else a later addBlock reads; and a second
\* call right after a first returns the same boolean.
C19_CheckValidReadOnly ==
  [][CheckValid =>
       /\ UNCHANGED <<heap, chain, difficulty, pc, fresh, hist>>
       /\ (op = "checkValid" => ret' = ret)]_vars

C19_Witness ==
  /\ op = "checkValid"
  /\ ret = "true"
  /\ Len(chain) = 2
  /\ fresh /= {}
  /\ heap[chain[2]].nonce > 0

====
